---------------------------- MODULE Spec2Model ----------------------------
(***************************************************************************)
(* Risk-Radar: the risk-scoring service (backend/src/services/             *)
(* risk-scoring.js), the exposure service built on it, the OEM exposure    *)
(* route, the fetch of the scrapers and the ingestion pipeline.            *)
(*                                                                         *)
(* JavaScript numbers are modelled as exact rationals n/d extended with    *)
(* the IEEE special values +Infinity, -Infinity and NaN, which the code    *)
(* produces by dividing by zero and by multiplying zero with an infinity.  *)
(* Math.pow with a fractional exponent (the weekly decay) is the one       *)
(* irrational operation; it is computed to four decimals.                  *)
(* Time is counted in ticks of half a day, so that the Math.floor of a     *)
(* day difference is visible.                                              *)
(***************************************************************************)
EXTENDS Integers, Sequences, FiniteSets, TLC

VARIABLES now, call, ret,
          cache, fetches,
          processedEventKeys, events, runs, recreated

\* the scraper: its cache and the fetch calls in progress
scraperVars == <<cache, fetches>>

\* the ingestion pipeline: its processed keys, the events table, the ingest
\* runs in progress, and the keys createEvent was called for once more
pipelineVars == <<processedEventKeys, events, runs, recreated>>

vars == <<now, call, ret, scraperVars, pipelineVars>>

(***************************************************************************)
(* Bounds of the model                                                     *)
(***************************************************************************)
\* the clock runs over 0..MaxNow ticks
MaxNow == 1
\* longest horizon passed to forecastDisruption
MaxHorizon == 3
\* most OEM connections in the supply-chain data of one getAffectedOEMs call
MaxOems == 2
\* longest supply_chain_path of one OEM connection
MaxPathLen == 1
\* most connections given to one direct calculateOEMExposure call
MaxConnections == 3
\* most source regions of one commodity
MaxRegions == 2
\* the most active risks of an OEM in a call of the exposure route
MaxRisks == 2

\* ticks per day: Date differences are divided by (1000 * 60 * 60 * 24)
TicksPerDay == 2

(***************************************************************************)
(* Values that are not numbers                                             *)
(***************************************************************************)
\* undefined, for a string-valued field that is not set
Missing == "undefined"
\* undefined, for a number-valued field or argument that is not set
Undef == [k |-> "undef", n |-> 0, d |-> 1]
\* the result of a call that has not happened yet
NoRet == "none"

(***************************************************************************)
(* Numbers                                                                 *)
(***************************************************************************)
Abs(i) == IF i < 0 THEN -i ELSE i

RECURSIVE Gcd(_, _)
Gcd(a, b) == IF b = 0 THEN a ELSE Gcd(b, a % b)

\* the rational n/d (d # 0) in lowest terms with a positive denominator
R(n, d) ==
    LET g == Gcd(Abs(n), Abs(d))
        s == IF d < 0 THEN -1 ELSE 1
    IN  [k |-> "fin", n |-> s * (n \div g), d |-> s * (d \div g)]

I(n) == [k |-> "fin", n |-> n, d |-> 1]
NaN == [k |-> "nan", n |-> 0, d |-> 1]
PosInf == [k |-> "inf", n |-> 1, d |-> 1]
NegInf == [k |-> "inf", n |-> -1, d |-> 1]

IsNaN(x) == x.k = "nan"
IsFin(x) == x.k = "fin"
\* -1, 0 or 1; not used on NaN
Sign(x) == IF x.n > 0 THEN 1 ELSE IF x.n < 0 THEN -1 ELSE 0
Inf(s) == IF s > 0 THEN PosInf ELSE NegInf

\* compare a/b with c/d (b, d > 0) by their continued fractions, so that no
\* product of two large terms is formed: -1, 0 or 1
RECURSIVE RCmp(_, _, _, _)
RCmp(a, b, c, d) ==
    LET q1 == a \div b
        q2 == c \div d
        r1 == a % b
        r2 == c % d
    IN  IF q1 < q2 THEN -1
        ELSE IF q1 > q2 THEN 1
        ELSE IF r1 = 0 /\ r2 = 0 THEN 0
        ELSE IF r1 = 0 THEN -1
        ELSE IF r2 = 0 THEN 1
        ELSE RCmp(d, r2, b, r1)

\* x < y as JavaScript decides it: false when either is NaN
Lt(x, y) ==
    IF IsNaN(x) \/ IsNaN(y) THEN FALSE
    ELSE IF x.k = "inf" /\ y.k = "inf" THEN x.n < y.n
    ELSE IF x.k = "inf" THEN x.n < 0
    ELSE IF y.k = "inf" THEN y.n > 0
    ELSE RCmp(x.n, x.d, y.n, y.d) < 0

Gt(x, y) == Lt(y, x)
\* x === y on numbers: false when either is NaN
NumEq(x, y) == ~IsNaN(x) /\ ~IsNaN(y) /\ x = y
Le(x, y) == Lt(x, y) \/ NumEq(x, y)
Ge(x, y) == Le(y, x)

Neg(x) == [x EXCEPT !.n = -x.n]

Add(x, y) ==
    IF IsNaN(x) \/ IsNaN(y) THEN NaN
    ELSE IF x.k = "inf" /\ y.k = "inf" THEN (IF x.n = y.n THEN x ELSE NaN)
    ELSE IF x.k = "inf" THEN x
    ELSE IF y.k = "inf" THEN y
    ELSE R(x.n * y.d + y.n * x.d, x.d * y.d)

Sub(x, y) == Add(x, Neg(y))

Mul(x, y) ==
    IF IsNaN(x) \/ IsNaN(y) THEN NaN
    ELSE IF x.k = "inf" \/ y.k = "inf"
         THEN (IF Sign(x) * Sign(y) = 0 THEN NaN ELSE Inf(Sign(x) * Sign(y)))
    ELSE LET g1 == Gcd(Abs(x.n), y.d)
             g2 == Gcd(Abs(y.n), x.d)
         IN  [k |-> "fin",
              n |-> (x.n \div g1) * (y.n \div g2),
              d |-> (x.d \div g2) * (y.d \div g1)]

Div(x, y) ==
    IF IsNaN(x) \/ IsNaN(y) THEN NaN
    ELSE IF y.k = "inf" THEN (IF x.k = "inf" THEN NaN ELSE I(0))
    ELSE IF y.n = 0 THEN (IF Sign(x) = 0 THEN NaN ELSE Inf(Sign(x)))
    ELSE IF x.k = "inf" THEN Inf(Sign(x) * Sign(y))
    ELSE Mul(x, R(y.d, y.n))

\* Math.min and Math.max of two numbers: NaN when either is NaN
MathMin(x, y) == IF IsNaN(x) \/ IsNaN(y) THEN NaN ELSE IF Lt(y, x) THEN y ELSE x
MathMax(x, y) == IF IsNaN(x) \/ IsNaN(y) THEN NaN ELSE IF Lt(x, y) THEN y ELSE x

\* the clamp with the upper bound forgotten
Clamp01_NoUpperBound(x) == MathMax(I(0), x)

\* Math.max(0, Math.min(1, x))
Clamp01(x) == MathMax(I(0), MathMin(I(1), x))

\* Math.floor and Math.ceil of a finite number, as integers
Floor(x) == x.n \div x.d
Ceil(x) == -((-x.n) \div x.d)

\* <<(r * times) \div d, (r * times) % d>> for 0 <= r < d, by repeated
\* addition modulo d, so that no product is formed
RECURSIVE TimesDivMod(_, _, _, _, _)
TimesDivMod(r, d, times, quot, acc) ==
    IF times = 0 THEN <<quot, acc>>
    ELSE IF acc + r >= d THEN TimesDivMod(r, d, times - 1, quot + 1, acc + r - d)
    ELSE TimesDivMod(r, d, times - 1, quot, acc + r)

\* the non-negative rational n/d in thousandths, to the nearest (the larger
\* one on a tie)
Thousandths(n, d) ==
    LET d1 == TimesDivMod(n % d, d, 10, 0, 0)
        d2 == TimesDivMod(d1[2], d, 10, 0, 0)
        d3 == TimesDivMod(d2[2], d, 10, 0, 0)
    IN  (n \div d) * 1000 + d1[1] * 100 + d2[1] * 10 + d3[1]
        + (IF 2 * d3[2] >= d THEN 1 ELSE 0)

\* Number.prototype.toFixed(3): the number the string written stands for;
\* NaN and the infinities are written as themselves
ToFixed3(x) ==
    IF ~IsFin(x) THEN x
    ELSE IF x.n >= 0 THEN R(Thousandths(x.n, x.d), 1000)
    ELSE Neg(R(Thousandths(-x.n, x.d), 1000))

\* the number a formatted or computed value stands for lies in [0,1]
InUnit(x) == IsFin(x) /\ 0 <= x.n /\ x.n <= x.d

(***************************************************************************)
(* risk-scoring.js: configuration                                          *)
(***************************************************************************)
EventTypes ==
    {"strike", "bankruptcy", "environmental_shutdown", "regulatory_action",
     "infrastructure_outage", "labor_protest"}

\* WEIGHTS.severity[event_type] || 0.65
SeverityWeight(event_type) ==
    CASE event_type = "strike" -> R(85, 100)
      [] event_type = "bankruptcy" -> R(90, 100)
      [] event_type = "environmental_shutdown" -> R(75, 100)
      [] event_type = "regulatory_action" -> R(70, 100)
      [] event_type = "infrastructure_outage" -> R(60, 100)
      [] event_type = "labor_protest" -> R(65, 100)
      [] OTHER -> R(65, 100)

\* the multipliers of high and low exchanged
SubstitutionDifficultyMultiplier_Inverted(substitution_difficulty) ==
    CASE substitution_difficulty = "high" -> I(1)
      [] substitution_difficulty = "medium" -> I(2)
      [] substitution_difficulty = "low" -> I(3)
      [] OTHER -> I(1)

\* WEIGHTS.substitutionDifficultyMultiplier[substitution_difficulty] || 1.0
SubstitutionDifficultyMultiplier(substitution_difficulty) ==
    CASE substitution_difficulty = "high" -> I(3)
      [] substitution_difficulty = "medium" -> I(2)
      [] substitution_difficulty = "low" -> I(1)
      [] OTHER -> I(1)

\* the table with the whole scale as the range of a type it does not list
SEVERITY_SCALE_WholeScaleDefault(event_type) ==
    CASE event_type = "strike" -> [min |-> 3, max |-> 5]
      [] event_type = "bankruptcy" -> [min |-> 4, max |-> 5]
      [] event_type = "environmental_shutdown" -> [min |-> 2, max |-> 4]
      [] event_type = "regulatory_action" -> [min |-> 2, max |-> 4]
      [] event_type = "infrastructure_outage" -> [min |-> 1, max |-> 3]
      [] event_type = "labor_protest" -> [min |-> 1, max |-> 3]
      [] OTHER -> [min |-> 1, max |-> 5]

\* SEVERITY_SCALE[event_type] || { min: 1, max: 3 }
SEVERITY_SCALE(event_type) ==
    CASE event_type = "strike" -> [min |-> 3, max |-> 5]
      [] event_type = "bankruptcy" -> [min |-> 4, max |-> 5]
      [] event_type = "environmental_shutdown" -> [min |-> 2, max |-> 4]
      [] event_type = "regulatory_action" -> [min |-> 2, max |-> 4]
      [] event_type = "infrastructure_outage" -> [min |-> 1, max |-> 3]
      [] event_type = "labor_protest" -> [min |-> 1, max |-> 3]
      [] OTHER -> [min |-> 1, max |-> 3]

\* a destructuring default: the default replaces undefined only
Default(v, dflt) == IF v.k = "undef" THEN dflt ELSE v
DefaultStr(v, dflt) == IF v = Missing THEN dflt ELSE v

Max2(a, b) == IF a > b THEN a ELSE b
Min2(a, b) == IF a < b THEN a ELSE b

(***************************************************************************)
(* calculateEventSeverity                                                  *)
(***************************************************************************)
\* the comparison turned around: participants < limit
ParticipantsAbove_Reversed(participants, limit) ==
    participants.k # "undef" /\ Lt(participants, I(limit))

\* participants > limit, false for an undefined participant count
ParticipantsAbove(participants, limit) ==
    participants.k # "undef" /\ Gt(participants, I(limit))

calculateEventSeverity(eventData) ==
    LET indicators ==
            IF eventData.indicators.present THEN eventData.indicators
            ELSE [present |-> TRUE, scope |-> Missing, participants |-> Undef,
                  historical_impact |-> Missing]
        range == SEVERITY_SCALE(eventData.event_type)
        severity ==
            IF \/ indicators.scope = "major"
               \/ ParticipantsAbove(indicators.participants, 1000)
               \/ indicators.historical_impact = "high"
            THEN range.max
            ELSE IF \/ indicators.scope = "moderate"
                    \/ ParticipantsAbove(indicators.participants, 500)
                    \/ indicators.historical_impact = "medium"
            THEN (range.min + range.max + 1) \div 2
            ELSE range.min
    IN  Max2(1, Min2(5, severity))


(***************************************************************************)
(* calculateRiskScore and its factors                                      *)
(***************************************************************************)
\* 10000 * 0.95^(k/7) for k = 0..6 days, to the nearest integer
DayFraction == <<10000, 9927, 9855, 9783, 9711, 9640, 9570>>

\* 10000 * Math.pow(0.95, days / 7), to four decimals
RECURSIVE Pow095(_)
Pow095(days) ==
    IF days < 0 THEN 100000000 \div Pow095(-days)
    ELSE IF days < 7 THEN DayFraction[days + 1]
    ELSE (Pow095(days - 7) * 95 + 50) \div 100

\* the decay with the sign of the age lost: older events weigh more
calculateTimeDecay_Reversed(daysAgo) == R(Pow095(-daysAgo), 10000)

calculateTimeDecay(daysAgo) == R(Pow095(daysAgo), 10000)

calculateRegionalProductionShare(globalProduction, regionProduction) ==
    MathMin(I(1), Div(regionProduction, globalProduction))

calculateCommodityRisk(substitution_difficulty) ==
    MathMin(I(2), Div(SubstitutionDifficultyMultiplier(
                          DefaultStr(substitution_difficulty, "medium")), I(3)))

\* the difference left in ticks: neither divided nor rounded down
DaysBetween_Unfloored(earlier, later) == later - earlier

\* Math.floor((later - earlier) / (1000 * 60 * 60 * 24)) on two instants
DaysBetween(earlier, later) == (later - earlier) \div TicksPerDay

\* the confidence applied as a discount
ConfidenceAdjusted_Inverted(baseScore, confidence) ==
    Mul(baseScore, Sub(I(1), confidence))

\* const confidenceAdjusted = baseScore * confidence
ConfidenceAdjusted(baseScore, confidence) == Mul(baseScore, confidence)

\* the value calculateRiskScore returns when anything in it throws
RiskScoreOnError == R(3, 10)

calculateRiskScore(eventData, facilityData, regionData, commodityData, t) ==
    IF ~eventData.present THEN RiskScoreOnError
    ELSE
    LET event_type == DefaultStr(eventData.event_type, "unknown")
        severity == Default(eventData.severity, I(3))
        confidence == Default(eventData.confidence, R(1, 2))
        detected_date == Default(eventData.detected_date, I(t))
        annual_capacity_tonnes ==
            Default(facilityData.annual_capacity_tonnes, I(1000))
        production_percentage ==
            Default(regionData.production_percentage, R(1, 2))
        substitution_difficulty ==
            DefaultStr(commodityData.substitution_difficulty, "medium")
        eventWeight == SeverityWeight(event_type)
        severityNormalized == Div(severity, I(5))
        baseScore == Mul(severityNormalized, eventWeight)
        confidenceAdjusted == ConfidenceAdjusted(baseScore, confidence)
        daysAgo == DaysBetween(detected_date.n, t)
        \* new Date(detected_date) of a value that is no date is an Invalid
        \* Date: the difference, its floor and the power are NaN
        timeDecay ==
            IF IsFin(detected_date) THEN calculateTimeDecay(daysAgo) ELSE NaN
        timeAdjusted == Mul(confidenceAdjusted, timeDecay)
        regionalMultiplier ==
            calculateRegionalProductionShare(
                I(100), Mul(production_percentage, I(100)))
        commodityRisk == calculateCommodityRisk(substitution_difficulty)
        capacityFactor ==
            MathMin(I(1), Div(I(100), MathMax(annual_capacity_tonnes, I(10))))
        finalScore ==
            Mul(Mul(Mul(timeAdjusted, regionalMultiplier), commodityRisk),
                capacityFactor)
    IN  Clamp01(finalScore)

(***************************************************************************)
(* calculateExposureScore                                                  *)
(***************************************************************************)
\* the reduction without its floor of 0.1
AlternativeReduction_NoFloor(alternative_sources) ==
    Sub(I(1), Mul(alternative_sources, R(2, 10)))

\* Math.max(0.1, 1 - (alternative_sources * 0.2))
AlternativeReduction(alternative_sources) ==
    MathMax(R(1, 10), Sub(I(1), Mul(alternative_sources, R(2, 10))))

\* the reduction starting with the second alternative only
HasAlternatives_MoreThanOne(alternative_sources) ==
    Gt(alternative_sources, I(1))

\* if (alternative_sources > 0)
HasAlternatives(alternative_sources) == Gt(alternative_sources, I(0))

calculateExposureScore(riskData, supplyChainData) ==
    LET dependency_percentage ==
            Default(supplyChainData.dependency_percentage, I(10))
        affected_tier1_suppliers ==
            Default(supplyChainData.affected_tier1_suppliers, I(1))
        alternative_sources ==
            Default(supplyChainData.alternative_sources, I(0))
        severity == Default(riskData.severity, I(3))
        base == Mul(Div(dependency_percentage, I(100)), Div(severity, I(5)))
        reduced ==
            IF HasAlternatives(alternative_sources)
            THEN Mul(base, AlternativeReduction(alternative_sources))
            ELSE base
        exposureScore ==
            IF NumEq(affected_tier1_suppliers, I(1))
            THEN Mul(reduced, R(15, 10))
            ELSE reduced
    IN  Clamp01(exposureScore)

(***************************************************************************)
(* calculateDisruptionProbability                                          *)
(***************************************************************************)
\* let timelineFactor = 0.5; if (start_date) { ... }, at instant t
TimelineFactor(start_date, timeHorizonWeeks, t) ==
    LET daysUntilStart == DaysBetween(t, start_date.n)
        weeksUntilStart == R(daysUntilStart, 7)
    IN  IF start_date.k = "undef" THEN R(5, 10)
        ELSE IF Lt(weeksUntilStart, timeHorizonWeeks)
        THEN Sub(I(1), Mul(Div(weeksUntilStart, timeHorizonWeeks), R(3, 10)))
        ELSE R(2, 10)

calculateDisruptionProbability(riskData, timeHorizonWeeksArg, t) ==
    LET timeHorizonWeeks == Default(timeHorizonWeeksArg, I(6))
        severity == Default(riskData.severity, I(3))
        confidence == Default(riskData.confidence, R(1, 2))
        status == DefaultStr(riskData.status, "active")
        start_date == riskData.start_date
        severityFactor == Mul(Div(severity, I(5)), confidence)
        phaseFactor == IF status = "escalating" THEN R(12, 10) ELSE I(1)
        timelineFactor == TimelineFactor(start_date, timeHorizonWeeks, t)
        probability == Mul(Mul(severityFactor, phaseFactor), timelineFactor)
    IN  Clamp01(probability)


(***************************************************************************)
(* estimateImpactTimeline                                                  *)
(***************************************************************************)
\* baseDelayWeeks[facility_type] || 3
BaseDelayWeeks(facility_type) ==
    CASE facility_type = "mine" -> I(4)
      [] facility_type = "smelter" -> I(2)
      [] facility_type = "refinery" -> I(2)
      [] facility_type = "manufacturing" -> I(1)
      [] facility_type = "assembly" -> R(1, 2)
      [] OTHER -> I(3)

estimateImpactTimeline(facility_type, lead_time_weeks) ==
    LET facilityDelay == BaseDelayWeeks(DefaultStr(facility_type, "mine"))
        totalImpactWeeks == Add(facilityDelay, Default(lead_time_weeks, I(4)))
    IN  [earliest_impact_weeks |-> facilityDelay,
         typical_impact_weeks |-> totalImpactWeeks,
         impact_days |-> I(Floor(Mul(totalImpactWeeks, I(7))))]

(***************************************************************************)
(* estimateDurationDays                                                    *)
(***************************************************************************)
\* the lookup dropped: every type gets the fallback
TypicalDurations_FallbackOnly(event_type) == I(14)

\* typicalDurations[event_type] || 14
TypicalDurations(event_type) ==
    CASE event_type = "strike" -> I(21)
      [] event_type = "bankruptcy" -> I(180)
      [] event_type = "environmental_shutdown" -> I(60)
      [] event_type = "regulatory_action" -> I(45)
      [] event_type = "infrastructure_outage" -> I(7)
      [] event_type = "labor_protest" -> I(3)
      [] OTHER -> I(14)

\* if (expected_duration_days): neither undefined, null, 0 nor NaN
Truthy(x) == x.k = "inf" \/ (x.k = "fin" /\ x.n # 0)

estimateDurationDays(eventData) ==
    LET event_type == DefaultStr(eventData.event_type, "unknown")
        expected_duration_days == eventData.expected_duration_days
    IN  IF Truthy(expected_duration_days) THEN expected_duration_days
        ELSE TypicalDurations(event_type)

(***************************************************************************)
(* exposure service: generateMitigationRecommendations                     *)
(***************************************************************************)
\* commodity.includes('raw_material'), on the commodity names of the model
IncludesRawMaterial(commodity) ==
    commodity \in {"raw_material", "raw_material_lithium"}

\* the limit taken as inclusive: alternative_sources <= 2
NeedsAlternativeSuppliers_AtMostTwo(alternative_sources) ==
    Le(alternative_sources, I(2))

\* if (alternative_sources < 2)
NeedsAlternativeSuppliers(alternative_sources) == Lt(alternative_sources, I(2))

\* the limit taken as exclusive: severity > 4
BufferPriority_AboveFour(severity) ==
    IF Gt(severity, I(4)) THEN "URGENT" ELSE "HIGH"

\* priority: severity >= 4 ? 'URGENT' : 'HIGH'
BufferPriority(severity) == IF Ge(severity, I(4)) THEN "URGENT" ELSE "HIGH"

generateMitigationRecommendations(exposureData, riskData, timeline) ==
    LET severity == Default(riskData.severity, I(3))
        dependency_percentage == exposureData.dependency_percentage
        alternative_sources == exposureData.alternative_sources
        bufferWeeks == Ceil(Div(dependency_percentage, I(20)))
        buffer ==
            <<[action |-> "Increase inventory buffer",
               priority |-> BufferPriority(severity),
               timeline |-> "Immediately",
               weeks_from |-> I(bufferWeeks), weeks_to |-> I(bufferWeeks + 2)]>>
        alternative ==
            IF NeedsAlternativeSuppliers(alternative_sources)
            THEN <<[action |-> "Activate alternative suppliers",
                    priority |-> "HIGH",
                    timeline |-> "weeks",
                    weeks_from |-> timeline.earliest_impact_weeks,
                    weeks_to |-> timeline.earliest_impact_weeks]>>
            ELSE <<>>
        hedging ==
            IF IncludesRawMaterial(exposureData.commodity)
            THEN <<[action |-> "Financial hedging", priority |-> "MEDIUM",
                    timeline |-> "1-2 weeks",
                    weeks_from |-> I(1), weeks_to |-> I(2)]>>
            ELSE <<>>
        partnerships ==
            <<[action |-> "Strengthen supplier relationships",
               priority |-> "MEDIUM", timeline |-> "Within 1 week",
               weeks_from |-> I(0), weeks_to |-> I(1)]>>
    IN  buffer \o alternative \o hedging \o partnerships

(***************************************************************************)
(* exposure service: calculateOEMExposure                                  *)
(***************************************************************************)
\* the boundaries taken as inclusive: value >= 0.6, value >= 0.3
RiskLevel_Inclusive(value) ==
    IF Ge(value, R(6, 10)) THEN "HIGH"
    ELSE IF Ge(value, R(3, 10)) THEN "MEDIUM"
    ELSE "LOW"

\* value > 0.6 ? 'HIGH' : value > 0.3 ? 'MEDIUM' : 'LOW'
RiskLevel(value) ==
    IF Gt(value, R(6, 10)) THEN "HIGH"
    ELSE IF Gt(value, R(3, 10)) THEN "MEDIUM"
    ELSE "LOW"

\* connections.filter(pred).length
RECURSIVE CountTier1(_)
CountTier1(conns) ==
    IF conns = <<>> THEN 0
    ELSE (IF NumEq(Head(conns).supplier_tier, I(1)) THEN 1 ELSE 0)
         + CountTier1(Tail(conns))

RECURSIVE CountAlternatives(_)
CountAlternatives(conns) ==
    IF conns = <<>> THEN 0
    ELSE (IF Head(conns).alternative_available THEN 1 ELSE 0)
         + CountAlternatives(Tail(conns))

\* connections.reduce((sum, conn) => sum + (conn.dependency_pct || 0), 0)
RECURSIVE SumDependency(_)
SumDependency(conns) ==
    IF conns = <<>> THEN I(0)
    ELSE LET pct == Head(conns).dependency_pct
         IN  Add(IF pct.k \in {"undef", "nan"} THEN I(0) ELSE pct,
                 SumDependency(Tail(conns)))

\* the sum reported as it is, not divided by the number of connections
MeanDependency_Sum(conns) == SumDependency(conns)

\* reduce(...) / Math.max(supplyChainConnections.length, 1)
MeanDependency(conns) == Div(SumDependency(conns), I(Max2(Len(conns), 1)))

\* what calculateOEMExposure returns from its catch block
NullExposure == [null |-> TRUE]

\* an OEM is reported as exposed when its exposure score is above this
MaterialityThreshold == R(1, 10)

\* the threshold taken as inclusive
IsExposed_Inclusive(exposureScore) == Ge(exposureScore, MaterialityThreshold)

\* exposed: exposureScore > 0.1
IsExposed(exposureScore) == Gt(exposureScore, MaterialityThreshold)

calculateOEMExposure(oemData, riskData, path, t) ==
    IF ~oemData.present \/ ~riskData.present \/ ~path.present
    THEN NullExposure
    ELSE
    LET supplyChainConnections == path.conns
        affectedTier1Suppliers == CountTier1(supplyChainConnections)
        exposureData ==
            [commodity |->
                 IF supplyChainConnections = <<>> THEN "unknown"
                 ELSE DefaultStr(Head(supplyChainConnections).commodity,
                                 "unknown"),
             dependency_percentage |-> MeanDependency(supplyChainConnections),
             affected_tier1_suppliers |-> I(affectedTier1Suppliers),
             alternative_sources |-> I(CountAlternatives(supplyChainConnections))]
        exposureScore == calculateExposureScore(riskData, exposureData)
        disruptionProbability == calculateDisruptionProbability(riskData, I(6), t)
        timeline == estimateImpactTimeline("mine", I(4))
    IN  [null |-> FALSE,
         oem_id |-> oemData.oem_id,
         exposed |-> IsExposed(exposureScore),
         exposure_score |-> exposureScore,
         affected_tier1_suppliers |-> affectedTier1Suppliers,
         commodity |-> exposureData.commodity,
         dependency_percentage |-> exposureData.dependency_percentage,
         alternative_sources |-> exposureData.alternative_sources,
         disruption_probability_6w |-> disruptionProbability,
         estimated_disruption_days |-> timeline.impact_days,
         risk_level |-> RiskLevel(exposureScore),
         supply_gap_estimate |->
             Mul(exposureData.dependency_percentage,
                 Sub(I(1), MathMin(I(1), Div(exposureData.alternative_sources,
                                             I(3))))),
         recommendations |->
             generateMitigationRecommendations(exposureData, riskData, timeline)]

(***************************************************************************)
(* exposure service: getAffectedOEMs                                       *)
(***************************************************************************)
\* the comparator with its operands exchanged: lowest first
SortsAfter_Ascending(a, b) == Gt(a.exposure_score, b.exposure_score)

\* the comparator (a, b) => b.exposure_score - a.exposure_score is positive:
\* a is to be placed after b
SortsAfter(a, b) == Gt(b.exposure_score, a.exposure_score)

\* Array.prototype.sort is stable: e goes behind every entry it does not
\* sort before
RECURSIVE InsertSorted(_, _)
InsertSorted(sorted, e) ==
    IF sorted = <<>> THEN <<e>>
    ELSE IF SortsAfter(Head(sorted), e) THEN <<e>> \o sorted
    ELSE <<Head(sorted)>> \o InsertSorted(Tail(sorted), e)

RECURSIVE SortByExposure(_)
SortByExposure(list) ==
    IF list = <<>> THEN <<>>
    ELSE InsertSorted(SortByExposure(SubSeq(list, 1, Len(list) - 1)),
                      list[Len(list)])

\* the loop left at the first OEM whose exposure is null
RECURSIVE CollectExposed_StopAtFailure(_, _, _)
CollectExposed_StopAtFailure(riskData, oem_connections, t) ==
    IF oem_connections = <<>> THEN <<>>
    ELSE LET oemConnection == Head(oem_connections)
             exposure ==
                 calculateOEMExposure(
                     [present |-> TRUE, oem_id |-> oemConnection.oem_id],
                     riskData, oemConnection.supply_chain_path, t)
         IN  IF exposure.null THEN <<>>
             ELSE IF exposure.exposed
             THEN <<exposure>>
                  \o CollectExposed_StopAtFailure(riskData,
                                                  Tail(oem_connections), t)
             ELSE CollectExposed_StopAtFailure(riskData, Tail(oem_connections), t)

\* the loop over oem_connections: the exposures pushed, in input order
RECURSIVE CollectExposed(_, _, _)
CollectExposed(riskData, oem_connections, t) ==
    IF oem_connections = <<>> THEN <<>>
    ELSE LET oemConnection == Head(oem_connections)
             exposure ==
                 calculateOEMExposure(
                     [present |-> TRUE, oem_id |-> oemConnection.oem_id],
                     riskData, oemConnection.supply_chain_path, t)
             rest == CollectExposed(riskData, Tail(oem_connections), t)
         IN  IF ~exposure.null /\ exposure.exposed
             THEN <<exposure>> \o rest
             ELSE rest

getAffectedOEMs(riskData, supplyChainData, t) ==
    IF ~supplyChainData.present THEN <<>>
    ELSE SortByExposure(
             CollectExposed(riskData, supplyChainData.oem_connections, t))

(***************************************************************************)
(* exposure service: calculateCommodityExposure                            *)
(***************************************************************************)
calculateConcentrationRisk(regions) ==
    IF Len(regions) = 0 THEN "UNKNOWN"
    ELSE IF Len(regions) = 1 THEN "HIGH"
    ELSE IF Len(regions) = 2 THEN "MEDIUM"
    ELSE "LOW"

\* region.toLowerCase(), on the region names of the model
ToLowerCase(region) ==
    CASE region = "Peru" -> "peru"
      [] OTHER -> region

\* regionLeadTimes[region.toLowerCase()] || 4
RegionLeadTime(region) ==
    LET name == ToLowerCase(region)
    IN  CASE name = "peru" -> 4
          [] name = "mexico" -> 2
          [] name = "vietnam" -> 3
          [] name = "china" -> 4
          [] name = "india" -> 5
          [] name = "other" -> 6
          [] OTHER -> 4

\* regions.reduce((sum, region) => sum + lead time of region, 0)
RECURSIVE SumLeadTimes(_)
SumLeadTimes(regions) ==
    IF regions = <<>> THEN 0
    ELSE RegionLeadTime(Head(regions)) + SumLeadTimes(Tail(regions))

calculateLeadTime(regions) ==
    Ceil(Div(I(SumLeadTimes(regions)), I(Max2(Len(regions), 1))))

\* active_risks.reduce((max, risk) => Math.max(max, risk.severity), 0)
RECURSIVE MaxSeverity(_, _)
MaxSeverity(max, active_risks) ==
    IF active_risks = <<>> THEN max
    ELSE MaxSeverity(MathMax(max, Head(active_risks).severity),
                     Tail(active_risks))

\* the body of the loop: the exposure of one commodity
CommodityExposure(supplyInfo) ==
    LET dependency_pct == Default(supplyInfo.dependency_pct, I(5))
        source_regions == supplyInfo.source_regions
        tier2_supplier_count == Default(supplyInfo.tier2_supplier_count, I(0))
        alternative_supplier_count ==
            Default(supplyInfo.alternative_supplier_count, I(0))
        affectedRisk == MaxSeverity(I(0), supplyInfo.active_risks)
        commodityExposureScore ==
            Mul(Mul(Div(dependency_pct, I(100)), Div(affectedRisk, I(5))),
                Sub(I(1), Mul(alternative_supplier_count, R(25, 100))))
    IN  [dependency_percentage |-> dependency_pct,
         primary_source_regions |-> source_regions,
         regional_concentration_risk |->
             calculateConcentrationRisk(source_regions),
         tier2_supplier_count |-> tier2_supplier_count,
         alternative_supplier_count |-> alternative_supplier_count,
         active_risks |-> affectedRisk,
         exposure_score |-> MathMin(I(1), commodityExposureScore),
         lead_time_weeks |-> calculateLeadTime(source_regions),
         recommended_buffer_weeks |-> Ceil(Div(dependency_pct, I(20)))]

\* the object calculateCommodityExposure returns from its catch block
NoCommodityExposures == <<>>

\* destructuring a supply info that is not an object throws, and so does
\* Object.entries of data that is not there: the catch block returns {}
calculateCommodityExposure(oemId, commoditySupplyData) ==
    IF ~commoditySupplyData.present THEN NoCommodityExposures
    ELSE IF \E commodity \in DOMAIN commoditySupplyData.entries :
               ~commoditySupplyData.entries[commodity].present
         THEN NoCommodityExposures
    ELSE [commodity \in DOMAIN commoditySupplyData.entries |->
             CommodityExposure(commoditySupplyData.entries[commodity])]

(***************************************************************************)
(* exposure service: forecastDisruption                                    *)
(***************************************************************************)
\* Math.pow(0.95, week) for a whole number of weeks
PowWeeks(week) == R(Pow095(7 * week), 10000)

\* a > b on two strings written by toFixed(3): character by character, so
\* "NaN" is above every string that starts with a digit
FixedStringGt(a, b) ==
    IF IsNaN(a) THEN ~IsNaN(b)
    ELSE IF IsNaN(b) THEN FALSE
    ELSE Gt(a, b)

ForecastEntry(riskData, supplyChainExposure, timeHorizonWeeks, week, t) ==
    LET timeDecay == PowWeeks(week)
        probability ==
            calculateDisruptionProbability(riskData, I(timeHorizonWeeks - week), t)
        expectedDisruption ==
            Mul(Mul(probability, supplyChainExposure), timeDecay)
    IN  [null |-> FALSE,
         week |-> week,
         probability |-> ToFixed3(probability),
         expected_disruption |-> ToFixed3(expectedDisruption),
         risk_level |-> RiskLevel(expectedDisruption)]

\* forecast.reduce((max, f) => (f.probability > max.probability ? f : max))
RECURSIVE PeakFrom(_, _)
PeakFrom(max, rest) ==
    IF rest = <<>> THEN max
    ELSE PeakFrom(IF FixedStringGt(Head(rest).probability, max.probability)
                  THEN Head(rest) ELSE max,
                  Tail(rest))

\* the loop stopping one week early: week < timeHorizonWeeks
ForecastWeeks_Exclusive(timeHorizonWeeks) ==
    [i \in 1..timeHorizonWeeks |-> i - 1]

\* for (let week = 0; week <= timeHorizonWeeks; week++): the weeks visited
ForecastWeeks(timeHorizonWeeks) == [i \in 1..(timeHorizonWeeks + 1) |-> i - 1]

\* the catch block passing the TypeError of reduce on to the caller
ForecastOnError_Rethrown(timeHorizonWeeks) == [raised |-> "TypeError"]

\* what the catch block of forecastDisruption returns
ForecastOnError(timeHorizonWeeks) ==
    [time_horizon_weeks |-> timeHorizonWeeks,
     forecast |-> <<>>,
     peak_risk_week |-> [null |-> TRUE]]

forecastDisruption(riskData, supplyChainExposure, timeHorizonWeeksArg, t) ==
    LET timeHorizonWeeks == Default(timeHorizonWeeksArg, I(6)).n
        weeks == ForecastWeeks(timeHorizonWeeks)
        forecast ==
            [i \in DOMAIN weeks |->
                ForecastEntry(riskData, supplyChainExposure, timeHorizonWeeks,
                              weeks[i], t)]
    IN  IF forecast = <<>>
        THEN ForecastOnError(timeHorizonWeeks)
        ELSE [time_horizon_weeks |-> timeHorizonWeeks,
              forecast |-> forecast,
              peak_risk_week |-> PeakFrom(Head(forecast), Tail(forecast))]


(***************************************************************************)
(* GET /api/oem-exposure                                                   *)
(***************************************************************************)
\* active_risks.reduce((max, r) =>
\*     Math.max(max, r.disruption_probability_6w || 0), 0)
RECURSIVE MaxDisruption(_, _)
MaxDisruption(max, active_risks) ==
    IF active_risks = <<>> THEN max
    ELSE MaxDisruption(
             MathMax(max,
                     IF Truthy(Head(active_risks).disruption_probability_6w)
                     THEN Head(active_risks).disruption_probability_6w
                     ELSE I(0)),
             Tail(active_risks))

\* maxDisruption > 0.6 ? 'HIGH' : maxDisruption > 0.3 ? 'MEDIUM' : 'LOW'
OverallRiskLevel(maxDisruption) ==
    IF Gt(maxDisruption, R(6, 10)) THEN "HIGH"
    ELSE IF Gt(maxDisruption, R(3, 10)) THEN "MEDIUM"
    ELSE "LOW"

\* commodity_exposures.reduce((sum, c) => sum + c.dependency_percentage, 0)
RECURSIVE TotalDependency(_)
TotalDependency(commodity_exposures) ==
    IF commodity_exposures = <<>> THEN I(0)
    ELSE Add(Head(commodity_exposures).dependency_percentage,
             TotalDependency(Tail(commodity_exposures)))

generateRecommendedActions(exposure) ==
    LET IsHighConcentration(c) == c.concentration_risk_level = "HIGH"
        IsHighSeverity(r) == Ge(r.severity, I(4))
        totalDependency == TotalDependency(exposure.commodity_exposures)
    IN  (IF Len(SelectSeq(exposure.commodity_exposures, IsHighConcentration)) > 0
         THEN <<[priority |-> "HIGH", action |-> "Diversify supplier base"]>>
         ELSE <<>>)
        \o (IF Len(SelectSeq(exposure.active_risks, IsHighSeverity)) > 0
            THEN <<[priority |-> "URGENT",
                    action |-> "Activate contingency plans"]>>
            ELSE <<>>)
        \o (IF Gt(totalDependency, I(20))
            THEN <<[priority |-> "MEDIUM",
                    action |-> "Increase inventory buffer"]>>
            ELSE <<>>)

\* the handler of GET /api/oem-exposure, given what getOEMExposure found
oemExposureRoute(oem_id, exposure) ==
    IF oem_id = Missing THEN [status |-> 400, code |-> "MISSING_PARAM"]
    ELSE IF ~exposure.present THEN [status |-> 404, code |-> "NOT_FOUND"]
    ELSE
    LET IsHighSeverity(r) == Ge(r.severity, I(4))
        IsMediumSeverity(r) == r.severity = I(3)
        IsExpected(r) == Gt(r.disruption_probability_6w, R(3, 10))
        maxDisruption == MaxDisruption(I(0), exposure.active_risks)
    IN  [status |-> 200,
         total_commodity_dependency |->
             TotalDependency(exposure.commodity_exposures),
         commodity_count |-> Len(exposure.commodity_exposures),
         high_severity_risks |->
             Len(SelectSeq(exposure.active_risks, IsHighSeverity)),
         medium_severity_risks |->
             Len(SelectSeq(exposure.active_risks, IsMediumSeverity)),
         max_disruption_probability_6w |-> ToFixed3(maxDisruption),
         overall_risk_level |-> OverallRiskLevel(maxDisruption),
         expected_disruptions |->
             Len(SelectSeq(exposure.active_risks, IsExpected)),
         recommended_actions |-> generateRecommendedActions(exposure)]


(***************************************************************************)
(* scrapers: BaseScraper.fetch                                             *)
(***************************************************************************)
\* this.retryAttempts = config.retryAttempts || 3
retryAttempts == 3
\* this.retryDelay = config.retryDelay || 1000, in milliseconds
retryDelay == 1000
\* this.cacheTTL, in ticks: a scraper configured to cache for one tick
cacheTTL == 1

\* the URLs fetched, the texts a successful response carries, the errors of
\* a failed attempt (a timeout, a status that is not ok), and the two callers
\* whose fetch calls may overlap
Urls == {"/news", "/unions"}
Texts == {"<html>a</html>", "<html>b</html>"}
FetchErrors == {"AbortError", "HTTP 500"}
Callers == {"first", "second"}

\* this.cache.get(cacheKey) of a URL that was never cached
NoCacheEntry == [present |-> FALSE, data |-> Missing, timestamp |-> 0]

\* a caller with no fetch in progress.  attempt, lastError and result are the
\* variables of the code; the other fields record what has happened in the
\* call: whether a cached entry younger than cacheTTL existed when it began
\* and the text of that entry, the network attempts made, the failed ones,
\* their errors, the delays slept, and the text of the successful response
NoFetch ==
    [pc |-> "idle", url |-> Missing, attempt |-> 0, lastError |-> Missing,
     result |-> Missing, fresh |-> FALSE, seen |-> Missing, attempts |-> 0,
     failures |-> 0, errors |-> <<>>, delays |-> <<>>, response |-> Missing]

\* cached && Date.now() - cached.timestamp < this.cacheTTL
CacheHit(cached, t) == cached.present /\ t - cached.timestamp < cacheTTL

\* a backoff after the last attempt as well: attempt <= this.retryAttempts
BackoffBeforeRetry_AfterLast(attempt) == attempt <= retryAttempts

\* if (attempt < this.retryAttempts)
BackoffBeforeRetry(attempt) == attempt < retryAttempts

\* this.retryDelay * Math.pow(2, attempt - 1)
BackoffDelay(attempt) == retryDelay * 2 ^ (attempt - 1)

\* attempt <= this.retryAttempts: the loop goes into the attempt and calls
\* fetchWithTimeout, or ends and lastError is thrown
EnterAttempt(f, attempt) ==
    IF attempt <= retryAttempts
    THEN [f EXCEPT !.pc = "fetching", !.attempt = attempt, !.attempts = @ + 1]
    ELSE [f EXCEPT !.pc = "thrown", !.attempt = attempt,
                   !.result = f.lastError]

\* fetch(url) up to its first await: the cache check and the first attempt
FetchCall ==
    \E c \in Callers, url \in Urls :
        LET cached == cache[url]
            started ==
                [NoFetch EXCEPT
                    !.url = url,
                    !.fresh = cached.present
                                 /\ now - cached.timestamp < cacheTTL,
                    !.seen = cached.data]
        IN  /\ fetches[c].pc = "idle"
            /\ fetches' =
                   [fetches EXCEPT
                       ![c] = IF CacheHit(cached, now)
                              THEN [started EXCEPT !.pc = "returned",
                                                   !.result = cached.data]
                              ELSE EnterAttempt(started, 1)]
            /\ UNCHANGED <<now, call, ret, cache, pipelineVars>>

\* fetchWithTimeout and response.text() resolve: the text is cached and
\* returned
FetchSucceeds ==
    \E c \in Callers, text \in Texts :
        /\ fetches[c].pc = "fetching"
        /\ cache' = [cache EXCEPT
                        ![fetches[c].url] =
                            [present |-> TRUE, data |-> text,
                             timestamp |-> now]]
        /\ fetches' = [fetches EXCEPT
                          ![c] = [@ EXCEPT !.pc = "returned", !.result = text,
                                           !.response = text]]
        /\ UNCHANGED <<now, call, ret, pipelineVars>>

\* the attempt rejects: the catch block keeps the error and sleeps, or the
\* loop goes on without sleeping
FetchFails ==
    \E c \in Callers, err \in FetchErrors :
        LET failed == [fetches[c] EXCEPT !.lastError = err,
                                         !.failures = @ + 1,
                                         !.errors = Append(@, err)]
        IN  /\ fetches[c].pc = "fetching"
            /\ fetches' =
                   [fetches EXCEPT
                       ![c] = IF BackoffBeforeRetry(failed.attempt)
                              THEN [failed EXCEPT
                                       !.pc = "sleeping",
                                       !.delays =
                                           Append(@, BackoffDelay(
                                                         failed.attempt))]
                              ELSE EnterAttempt(failed, failed.attempt + 1)]
            /\ UNCHANGED <<now, call, ret, cache, pipelineVars>>

\* this.sleep(delay) resolves: attempt++
FetchWakes ==
    \E c \in Callers :
        /\ fetches[c].pc = "sleeping"
        /\ fetches' = [fetches EXCEPT
                          ![c] = EnterAttempt(@, fetches[c].attempt + 1)]
        /\ UNCHANGED <<now, call, ret, cache, pipelineVars>>

\* the caller takes the text, or catches the error
FetchSettles ==
    \E c \in Callers :
        /\ fetches[c].pc \in {"returned", "thrown"}
        /\ fetches' = [fetches EXCEPT ![c] = NoFetch]
        /\ UNCHANGED <<now, call, ret, cache, pipelineVars>>

(***************************************************************************)
(* ingestion: DataIngestionPipeline                                        *)
(***************************************************************************)
\* the most articles one ingest run scrapes
MaxArticles == 2

\* the event keys generateEventKey gives the articles of the model
EventKeys == {"strike_news_2024_05_01", "spill_news_2024_05_02"}

\* the article lists of a run, each article given by its event key
ArticleLists == UNION {[1..n -> EventKeys] : n \in 0..MaxArticles}

\* the run scheduleIngestion starts at once and the run its timer starts
IngestRuns == {"startup", "interval"}

\* no ingest() in progress
NoRun ==
    [pc |-> "idle", articles |-> <<>>, article |-> 0,
     events_created |-> 0, errors |-> 0]

\* for (const article of processedArticles): storeProcessedArticle(article)
\* up to its first await, or aggregateEventsToRisks() after the last article
BeginArticle(run, article) ==
    IF article > Len(run.articles)
    THEN [run EXCEPT !.pc = "aggregating", !.article = article]
    ELSE IF run.articles[article] \in processedEventKeys
    THEN [run EXCEPT !.pc = "skipping", !.article = article]
    ELSE [run EXCEPT !.pc = "resolving", !.article = article]

\* the event key of the article a run is storing
KeyOf(run) == run.articles[run.article]

\* scheduleIngestion: setInterval(...) and the run on startup
ScheduleIngestion ==
    /\ runs["startup"].pc = "idle"
    /\ runs' = [runs EXCEPT !["startup"] = [NoRun EXCEPT !.pc = "scraping"]]
    /\ UNCHANGED <<now, call, ret, scraperVars, processedEventKeys, events,
                   recreated>>

\* the interval elapses: ingest() is called whether or not the run before
\* has finished
IntervalElapses ==
    /\ runs["startup"].pc # "idle"
    /\ runs["interval"].pc \in {"idle", "done"}
    /\ runs' = [runs EXCEPT !["interval"] = [NoRun EXCEPT !.pc = "scraping"]]
    /\ UNCHANGED <<now, call, ret, scraperVars, processedEventKeys, events,
                   recreated>>

\* scrapeAllSources() resolves with the articles found
ScrapeCompletes ==
    \E r \in IngestRuns, articles \in ArticleLists :
        /\ runs[r].pc = "scraping"
        /\ runs' = [runs EXCEPT ![r] = [@ EXCEPT !.pc = "processing",
                                                 !.articles = articles]]
        /\ UNCHANGED <<now, call, ret, scraperVars, processedEventKeys,
                       events, recreated>>

\* nlpPipeline.processBatch() resolves: the loop over the articles begins
ProcessCompletes ==
    \E r \in IngestRuns :
        /\ runs[r].pc = "processing"
        /\ runs' = [runs EXCEPT ![r] = BeginArticle(@, 1)]
        /\ UNCHANGED <<now, call, ret, scraperVars, processedEventKeys,
                       events, recreated>>

\* storeProcessedArticle returned null for a processed key
SkipReturns ==
    \E r \in IngestRuns :
        /\ runs[r].pc = "skipping"
        /\ runs' = [runs EXCEPT ![r] = BeginArticle(@, runs[r].article + 1)]
        /\ UNCHANGED <<now, call, ret, scraperVars, processedEventKeys,
                       events, recreated>>

\* resolveEntities() resolves: riskRepository.createEvent is called
ResolveCompletes ==
    \E r \in IngestRuns :
        /\ runs[r].pc = "resolving"
        /\ runs' = [runs EXCEPT ![r] = [@ EXCEPT !.pc = "creating"]]
        /\ recreated' = IF events[KeyOf(runs[r])] > 0
                        THEN recreated \cup {KeyOf(runs[r])}
                        ELSE recreated
        /\ UNCHANGED <<now, call, ret, scraperVars, processedEventKeys,
                       events>>

\* the INSERT succeeds, which the UNIQUE event_key allows for a key without
\* event only: the key is marked as processed
CreateEventSucceeds ==
    \E r \in IngestRuns :
        /\ runs[r].pc = "creating"
        /\ events[KeyOf(runs[r])] = 0
        /\ events' = [events EXCEPT ![KeyOf(runs[r])] = @ + 1]
        /\ processedEventKeys' = processedEventKeys \cup {KeyOf(runs[r])}
        /\ runs' = [runs EXCEPT ![r] = [@ EXCEPT !.pc = "linking"]]
        /\ UNCHANGED <<now, call, ret, scraperVars, recreated>>

\* the INSERT fails: createEvent and storeProcessedArticle throw, ingest
\* counts the error and goes on with the next article
CreateEventFails ==
    \E r \in IngestRuns :
        /\ runs[r].pc = "creating"
        /\ runs' = [runs EXCEPT
                       ![r] = BeginArticle([@ EXCEPT !.errors = @ + 1],
                                           runs[r].article + 1)]
        /\ UNCHANGED <<now, call, ret, scraperVars, processedEventKeys,
                       events, recreated>>

\* tryAggregatToRisk() resolves: the event is returned and counted
LinkCompletes ==
    \E r \in IngestRuns :
        /\ runs[r].pc = "linking"
        /\ runs' = [runs EXCEPT
                       ![r] = BeginArticle([@ EXCEPT !.events_created = @ + 1],
                                           runs[r].article + 1)]
        /\ UNCHANGED <<now, call, ret, scraperVars, processedEventKeys,
                       events, recreated>>

\* aggregateEventsToRisks() resolves: ingest returns its stats
AggregateCompletes ==
    \E r \in IngestRuns :
        /\ runs[r].pc = "aggregating"
        /\ runs' = [runs EXCEPT ![r] = [@ EXCEPT !.pc = "done"]]
        /\ UNCHANGED <<now, call, ret, scraperVars, processedEventKeys,
                       events, recreated>>

(***************************************************************************)
(* Inputs of the calls                                                     *)
(***************************************************************************)
\* instants, in ticks: eight weeks and one week before tick 0, tick 0, a day
\* and a half and three weeks after it
Instants == {-(56 * TicksPerDay), -(7 * TicksPerDay), 0, 3, 21 * TicksPerDay}

Severities == {I(1), I(2), I(3), I(4), I(5)}
Confidences == {I(0), R(1, 2), R(9, 10), I(1)}

IndicatorInputs ==
    [present : {TRUE},
     scope : {Missing, "moderate", "major"},
     participants : {Undef, I(10), I(500), I(501), I(1000), I(1001), I(2000)},
     historical_impact : {Missing, "medium", "high"}]
    \cup {[present |-> FALSE, scope |-> Missing, participants |-> Undef,
           historical_impact |-> Missing]}

SeverityEventInputs ==
    [event_type : EventTypes \cup {"tariff"}, indicators : IndicatorInputs]

\* the events whose duration is estimated: with and without a duration of
\* their own
DurationEventInputs ==
    [event_type : EventTypes \cup {"tariff", "unknown", Missing},
     expected_duration_days : {Undef, I(0), I(30), R(5, 2)}]

\* events as they arrive unvalidated: one with none of the numeric fields,
\* one with a severity and a confidence out of their ranges, and one whose
\* detected_date does not parse as a date
UnvalidatedEvents ==
    {[present |-> TRUE, event_type |-> "strike", severity |-> Undef,
      confidence |-> Undef, detected_date |-> Undef],
     [present |-> TRUE, event_type |-> "strike", severity |-> I(10),
      confidence |-> I(-1), detected_date |-> I(0)],
     [present |-> TRUE, event_type |-> "strike", severity |-> I(3),
      confidence |-> R(9, 10), detected_date |-> NaN]}

AbsentEvent ==
    [present |-> FALSE, event_type |-> Missing, severity |-> Undef,
     confidence |-> Undef, detected_date |-> Undef]

EventInputs ==
    [present : {TRUE},
     event_type : {"strike", "bankruptcy", Missing},
     severity : Severities,
     confidence : Confidences,
     detected_date : {I(i) : i \in Instants}]
    \cup {AbsentEvent}
    \cup UnvalidatedEvents

\* substitution difficulties: the three known ones, none, and an unknown one
DifficultyInputs == {"high", "medium", "low", Missing, "extreme"}

FacilityInputs ==
    [present : {TRUE}, annual_capacity_tonnes : {I(5), I(50)}]
    \cup {[present |-> FALSE, annual_capacity_tonnes |-> Undef]}

RegionInputs ==
    [present : {TRUE}, production_percentage : {I(0), R(3, 2)}]
    \cup {[present |-> FALSE, production_percentage |-> Undef]}

CommodityInputs ==
    [present : {TRUE}, substitution_difficulty : {"high", "low"}]
    \cup {[present |-> FALSE, substitution_difficulty |-> Missing]}

ExposureRiskInputs == [severity : Severities \cup {Undef}]

SupplyChainInputs ==
    [dependency_percentage :
         {Undef, I(-10), I(0), I(5), I(10), R(25, 2), I(50), I(100), I(1000)},
     affected_tier1_suppliers : {Undef, I(0), I(1), I(2)},
     alternative_sources : {Undef} \cup {I(i) : i \in 0..6}]

RiskInputs ==
    [present : {TRUE},
     severity : {I(1), I(3), I(5), Undef},
     confidence : {I(0), R(1, 2), I(1)},
     status : {"active", "escalating"},
     start_date : {Undef} \cup {I(i) : i \in Instants \ {-(56 * TicksPerDay)}}]

HorizonInputs == {Undef} \cup {I(h) : h \in -1..MaxHorizon}

ExposureLevels == {I(0), R(1, 2), I(1)}

RegionNames ==
    {"peru", "mexico", "vietnam", "china", "india", "other", "brazil", "Peru"}

ActiveRiskInputs ==
    {<<>>, <<[severity |-> I(5)]>>, <<[severity |-> I(3)], [severity |-> I(4)]>>}

SupplyInfoInputs ==
    [present : {TRUE},
     dependency_pct : {Undef, I(50), I(250)},
     source_regions : UNION {[1..n -> RegionNames] : n \in 0..MaxRegions},
     active_risks : ActiveRiskInputs,
     tier2_supplier_count : {Undef},
     alternative_supplier_count : {Undef, I(1), I(5)}]

\* a supply info that is null
NullSupplyInfo ==
    [present |-> FALSE, dependency_pct |-> Undef, source_regions |-> <<>>,
     active_risks |-> <<>>, tier2_supplier_count |-> Undef,
     alternative_supplier_count |-> Undef]

\* the supply info of the second commodity of a call with two
SecondSupplyInfo ==
    [present |-> TRUE, dependency_pct |-> I(20), source_regions |-> <<"mexico">>,
     active_risks |-> <<[severity |-> I(5)]>>, tier2_supplier_count |-> I(2),
     alternative_supplier_count |-> I(0)]

\* the commodity supply data of a call: none, no commodity, one commodity, or
\* copper with a second commodity
CommoditySupplyInputs ==
    {[present |-> FALSE, entries |-> <<>>], [present |-> TRUE, entries |-> <<>>]}
    \cup {[present |-> TRUE, entries |-> [c \in {"copper"} |-> info]] :
             info \in SupplyInfoInputs}
    \cup {[present |-> TRUE,
           entries |-> [c \in {"copper", "lithium"} |->
                           IF c = "copper" THEN SecondSupplyInfo ELSE info]] :
             info \in {SecondSupplyInfo, NullSupplyInfo}}

\* the supply-chain connections of the model
Connections ==
    {[supplier_tier |-> I(2), dependency_pct |-> I(10), commodity |-> "copper",
      alternative_available |-> FALSE],
     [supplier_tier |-> I(2), dependency_pct |-> I(11), commodity |-> "copper",
      alternative_available |-> FALSE],
     [supplier_tier |-> I(1), dependency_pct |-> I(40),
      commodity |-> "raw_material_lithium", alternative_available |-> TRUE]}

\* the connections given to calculateOEMExposure directly: a Tier-2 supplier,
\* a Tier-1 supplier with an alternative, a Tier-1 supplier without one whose
\* dependency percentage is not set, and a Tier-2 supplier of everything
DirectConnections ==
    {[supplier_tier |-> I(2), dependency_pct |-> I(10), commodity |-> "copper",
      alternative_available |-> FALSE],
     [supplier_tier |-> I(1), dependency_pct |-> I(40),
      commodity |-> "raw_material_lithium", alternative_available |-> TRUE],
     [supplier_tier |-> I(1), dependency_pct |-> Undef, commodity |-> "copper",
      alternative_available |-> FALSE],
     [supplier_tier |-> I(2), dependency_pct |-> I(100), commodity |-> "copper",
      alternative_available |-> FALSE]}

DirectPathInputs ==
    {[present |-> FALSE, conns |-> <<>>]}
    \cup {[present |-> TRUE, conns |-> c] :
             c \in UNION {[1..n -> DirectConnections] : n \in 0..MaxConnections}}

OemInputs == {[present |-> TRUE, oem_id |-> 1], [present |-> FALSE, oem_id |-> 0]}

PathInputs ==
    {[present |-> FALSE, conns |-> <<>>]}
    \cup {[present |-> TRUE, conns |-> c] :
             c \in UNION {[1..n -> Connections] : n \in 0..MaxPathLen}}

OemRiskInputs ==
    {[present |-> TRUE, severity |-> sev, confidence |-> R(9, 10),
      status |-> "active", start_date |-> Undef] : sev \in {I(3), I(4), I(5)}}
    \cup {[present |-> FALSE, severity |-> Undef, confidence |-> Undef,
           status |-> Missing, start_date |-> Undef]}

\* the oem_connections of a call: OEM i is the i-th connection
OemConnectionInputs ==
    UNION {{[i \in 1..n |-> [oem_id |-> i, supply_chain_path |-> paths[i]]] :
               paths \in [1..n -> PathInputs]} : n \in 0..MaxOems}

SupplyChainDataInputs ==
    {[present |-> FALSE, oem_connections |-> <<>>]}
    \cup {[present |-> TRUE, oem_connections |-> c] : c \in OemConnectionInputs}

\* what getOEMExposure finds for an OEM: its commodity exposures and its
\* active risks with the six-week disruption probability stored for each
RouteRiskInputs ==
    [severity : {I(3), I(4)},
     disruption_probability_6w :
         {Undef, I(0), R(3, 10), R(6, 10), R(9, 10)}]

RouteCommodityInputs ==
    {<<>>,
     <<[dependency_percentage |-> I(25), concentration_risk_level |-> "HIGH"]>>,
     <<[dependency_percentage |-> I(15), concentration_risk_level |-> "LOW"]>>}

RouteExposureInputs ==
    {[present |-> FALSE, commodity_exposures |-> <<>>, active_risks |-> <<>>]}
    \cup [present : {TRUE},
          commodity_exposures : RouteCommodityInputs,
          active_risks :
              UNION {[1..n -> RouteRiskInputs] : n \in 0..MaxRisks}]

(***************************************************************************)
(* The calls                                                               *)
(***************************************************************************)
Init ==
    /\ now = 0
    /\ call = [fn |-> "none"]
    /\ ret = NoRet
    /\ cache = [url \in Urls |-> NoCacheEntry]
    /\ fetches = [c \in Callers |-> NoFetch]
    /\ processedEventKeys = {}
    /\ events = [key \in EventKeys |-> 0]
    /\ runs = [r \in IngestRuns |-> NoRun]
    /\ recreated = {}

\* no call is in progress or awaiting its caller: the functions are
\* synchronous, or awaited one at a time
Idle == call.fn = "none"

\* the caller takes the result
Return ==
    /\ ~Idle
    /\ call' = [fn |-> "none"]
    /\ ret' = NoRet
    /\ UNCHANGED <<now, scraperVars, pipelineVars>>

\* time passes between calls
Tick ==
    /\ Idle
    /\ now < MaxNow
    /\ now' = now + 1
    /\ UNCHANGED <<call, ret, scraperVars, pipelineVars>>

CallCalculateEventSeverity ==
    /\ Idle
    /\ \E eventData \in SeverityEventInputs :
        /\ call' = [fn |-> "calculateEventSeverity",
                    eventData |-> eventData]
        /\ ret' = calculateEventSeverity(eventData)
        /\ UNCHANGED <<now, scraperVars, pipelineVars>>

CallEstimateDurationDays ==
    /\ Idle
    /\ \E eventData \in DurationEventInputs :
        /\ call' = [fn |-> "estimateDurationDays", eventData |-> eventData]
        /\ ret' = estimateDurationDays(eventData)
        /\ UNCHANGED <<now, scraperVars, pipelineVars>>

CallCalculateRiskScore ==
    /\ Idle
    /\ \E eventData \in EventInputs, facilityData \in FacilityInputs,
          regionData \in RegionInputs, commodityData \in CommodityInputs :
        /\ call' = [fn |-> "calculateRiskScore",
                    eventData |-> eventData, facilityData |-> facilityData,
                    regionData |-> regionData, commodityData |-> commodityData]
        /\ ret' = calculateRiskScore(eventData, facilityData, regionData,
                                     commodityData, now)
        /\ UNCHANGED <<now, scraperVars, pipelineVars>>

\* the commodity criticality step of calculateRiskScore
CallCalculateCommodityRisk ==
    /\ Idle
    /\ \E substitution_difficulty \in DifficultyInputs :
        /\ call' = [fn |-> "calculateCommodityRisk",
                    substitution_difficulty |-> substitution_difficulty]
        /\ ret' = calculateCommodityRisk(substitution_difficulty)
        /\ UNCHANGED <<now, scraperVars, pipelineVars>>

CallCalculateExposureScore ==
    /\ Idle
    /\ \E riskData \in ExposureRiskInputs, supplyChainData \in SupplyChainInputs :
        /\ call' = [fn |-> "calculateExposureScore",
                    riskData |-> riskData, supplyChainData |-> supplyChainData]
        /\ ret' = calculateExposureScore(riskData, supplyChainData)
        /\ UNCHANGED <<now, scraperVars, pipelineVars>>

CallCalculateDisruptionProbability ==
    /\ Idle
    /\ \E riskData \in RiskInputs, timeHorizonWeeks \in HorizonInputs :
        /\ call' = [fn |-> "calculateDisruptionProbability",
                    riskData |-> riskData,
                    timeHorizonWeeks |-> timeHorizonWeeks]
        /\ ret' = calculateDisruptionProbability(riskData, timeHorizonWeeks, now)
        /\ UNCHANGED <<now, scraperVars, pipelineVars>>

CallCalculateOEMExposure ==
    /\ Idle
    /\ \E oemData \in OemInputs, riskData \in OemRiskInputs,
          path \in DirectPathInputs :
        /\ call' = [fn |-> "calculateOEMExposure", oemData |-> oemData,
                    riskData |-> riskData, path |-> path]
        /\ ret' = calculateOEMExposure(oemData, riskData, path, now)
        /\ UNCHANGED <<now, scraperVars, pipelineVars>>

CallCalculateCommodityExposure ==
    /\ Idle
    /\ \E commoditySupplyData \in CommoditySupplyInputs :
        /\ call' = [fn |-> "calculateCommodityExposure", oemId |-> 1,
                    commoditySupplyData |-> commoditySupplyData]
        /\ ret' = calculateCommodityExposure(1, commoditySupplyData)
        /\ UNCHANGED <<now, scraperVars, pipelineVars>>

CallGetAffectedOEMs ==
    /\ Idle
    /\ \E riskData \in OemRiskInputs, supplyChainData \in SupplyChainDataInputs :
        /\ call' = [fn |-> "getAffectedOEMs",
                    riskData |-> riskData, supplyChainData |-> supplyChainData]
        /\ ret' = getAffectedOEMs(riskData, supplyChainData, now)
        /\ UNCHANGED <<now, scraperVars, pipelineVars>>

CallForecastDisruption ==
    /\ Idle
    /\ \E riskData \in RiskInputs, supplyChainExposure \in ExposureLevels,
          timeHorizonWeeks \in HorizonInputs :
        /\ call' = [fn |-> "forecastDisruption",
                    riskData |-> riskData,
                    supplyChainExposure |-> supplyChainExposure,
                    timeHorizonWeeks |-> timeHorizonWeeks]
        /\ ret' = forecastDisruption(riskData, supplyChainExposure,
                                     timeHorizonWeeks, now)
        /\ UNCHANGED <<now, scraperVars, pipelineVars>>

CallOemExposureRoute ==
    /\ Idle
    /\ \E oem_id \in {Missing, "oem-1"}, exposure \in RouteExposureInputs :
        /\ call' = [fn |-> "oemExposureRoute", oem_id |-> oem_id,
                    exposure |-> exposure]
        /\ ret' = oemExposureRoute(oem_id, exposure)
        /\ UNCHANGED <<now, scraperVars, pipelineVars>>

Next ==
    \/ Tick
    \/ Return
    \/ CallCalculateEventSeverity
    \/ CallEstimateDurationDays
    \/ CallCalculateRiskScore
    \/ CallCalculateCommodityRisk
    \/ CallCalculateExposureScore
    \/ CallCalculateDisruptionProbability
    \/ CallCalculateOEMExposure
    \/ CallGetAffectedOEMs
    \/ CallCalculateCommodityExposure
    \/ CallForecastDisruption
    \/ CallOemExposureRoute
    \/ FetchCall
    \/ FetchSucceeds
    \/ FetchFails
    \/ FetchWakes
    \/ FetchSettles
    \/ ScheduleIngestion
    \/ IntervalElapses
    \/ ScrapeCompletes
    \/ ProcessCompletes
    \/ SkipReturns
    \/ ResolveCompletes
    \/ CreateEventSucceeds
    \/ CreateEventFails
    \/ LinkCompletes
    \/ AggregateCompletes

Spec == Init /\ [][Next]_vars

\* the calls of one service at a time
NextSeverity ==
    Tick \/ Return \/ CallCalculateEventSeverity \/ CallEstimateDurationDays
SpecSeverity == Init /\ [][NextSeverity]_vars

NextRiskScore ==
    Tick \/ Return \/ CallCalculateRiskScore \/ CallCalculateCommodityRisk
SpecRiskScore == Init /\ [][NextRiskScore]_vars

\* the three scoring functions, called in any order and at any time
NextScoring ==
    Tick \/ Return \/ CallCalculateEventSeverity \/ CallCalculateRiskScore
    \/ CallCalculateExposureScore
SpecScoring == Init /\ [][NextScoring]_vars

NextExposure ==
    Tick \/ Return \/ CallCalculateExposureScore \/ CallCalculateOEMExposure
    \/ CallGetAffectedOEMs
SpecExposure == Init /\ [][NextExposure]_vars

NextCommodity == Tick \/ Return \/ CallCalculateCommodityExposure
SpecCommodity == Init /\ [][NextCommodity]_vars

NextForecast ==
    Tick \/ Return \/ CallCalculateDisruptionProbability
    \/ CallForecastDisruption
SpecForecast == Init /\ [][NextForecast]_vars

\* the three places that grade a value as HIGH, MEDIUM or LOW
NextRiskLevel ==
    Tick \/ Return \/ CallCalculateOEMExposure \/ CallForecastDisruption
    \/ CallOemExposureRoute
SpecRiskLevel == Init /\ [][NextRiskLevel]_vars

\* one scraper, its clock and the fetch calls of its callers
NextScraper ==
    Tick \/ FetchCall \/ FetchSucceeds \/ FetchFails \/ FetchWakes
    \/ FetchSettles
SpecScraper == Init /\ [][NextScraper]_vars

\* one ingestion pipeline with its scheduled runs
NextPipeline ==
    ScheduleIngestion \/ IntervalElapses \/ ScrapeCompletes
    \/ ProcessCompletes \/ SkipReturns \/ ResolveCompletes
    \/ CreateEventSucceeds \/ CreateEventFails \/ LinkCompletes
    \/ AggregateCompletes
SpecPipeline == Init /\ [][NextPipeline]_vars

(***************************************************************************)
(* Properties                                                              *)
(***************************************************************************)
IsCall(fn) == call.fn = fn

\* the event of a calculateRiskScore call has a severity in 1..5, a
\* confidence in [0,1] and a detected date
ScoredEventInRange ==
    /\ IsCall("calculateRiskScore")
    /\ call.eventData.present
    /\ call.eventData.severity \in Severities
    /\ InUnit(call.eventData.confidence)
    /\ IsFin(call.eventData.detected_date)

\* the score of the event of the call changed to ev, with the facility, region
\* and commodity of the call, at the instant of the call
ScoreOf(ev) ==
    calculateRiskScore(ev, call.facilityData, call.regionData,
                       call.commodityData, now)

C2_ExposureScoreInUnit ==
    IsCall("calculateExposureScore") =>
        /\ InUnit(ret)
        /\ (/\ call.supplyChainData.dependency_percentage = I(1000)
            /\ call.riskData.severity = I(5)
            /\ call.supplyChainData.affected_tier1_suppliers = I(1))
           => ret = I(1)

\* dependency 1000, severity 5, one Tier-1 supplier and six alternatives
C2_Witness ==
    /\ IsCall("calculateExposureScore")
    /\ call.supplyChainData.dependency_percentage = I(1000)
    /\ call.riskData.severity = I(5)
    /\ call.supplyChainData.affected_tier1_suppliers = I(1)
    /\ call.supplyChainData.alternative_sources = I(6)
    /\ ret = I(1)

\* the exposure computed for the i-th OEM connection of a getAffectedOEMs call
ExposureOfOem(i) ==
    calculateOEMExposure(
        [present |-> TRUE, oem_id |-> i], call.riskData,
        call.supplyChainData.oem_connections[i].supply_chain_path, now)

\* the exposures computed for the OEM connections of the call, in their order
ExposuresOfCall ==
    [i \in DOMAIN call.supplyChainData.oem_connections |-> ExposureOfOem(i)]

\* C3: getAffectedOEMs returns exactly the OEMs whose computed exposure score
\* is strictly greater than 0.10, each once and with that score: a score of
\* exactly 0.10 is left out, one of 0.11 is in.
C3_MaterialityThreshold ==
    IsCall("getAffectedOEMs") =>
        LET exposures == ExposuresOfCall
            material ==
                {i \in DOMAIN exposures :
                    /\ ~exposures[i].null
                    /\ Gt(exposures[i].exposure_score, R(10, 100))}
        IN  /\ {ret[j].oem_id : j \in DOMAIN ret} = material
            /\ Len(ret) = Cardinality(material)
            /\ \A j \in DOMAIN ret :
                  /\ ret[j].exposure_score
                        = exposures[ret[j].oem_id].exposure_score
                  /\ ret[j].exposure_score # R(10, 100)

\* one OEM at exactly 0.10 is left out and one at exactly 0.11 is returned
C3_Witness ==
    /\ IsCall("getAffectedOEMs")
    /\ call.supplyChainData.present
    /\ Len(call.supplyChainData.oem_connections) = 2
    /\ ~ExposureOfOem(1).null
    /\ ExposureOfOem(1).exposure_score = R(10, 100)
    /\ Len(ret) = 1
    /\ ret[1].oem_id = 2
    /\ ret[1].exposure_score = R(11, 100)

\* C4: the list getAffectedOEMs returns is in non-increasing order of
\* exposure_score, whatever the order of the OEM connections given.
C4_SortedDescending ==
    IsCall("getAffectedOEMs") =>
        \A j \in 1..(Len(ret) - 1) :
            Ge(ret[j].exposure_score, ret[j + 1].exposure_score)

\* the connections were given in increasing order of exposure and come back
\* reversed
C4_Witness ==
    /\ IsCall("getAffectedOEMs")
    /\ Len(ret) = 2
    /\ ret[1].oem_id = 2
    /\ ret[2].oem_id = 1
    /\ Gt(ret[1].exposure_score, ret[2].exposure_score)

\* the horizon of a forecastDisruption call, 6 when none is given
HorizonOfCall == Default(call.timeHorizonWeeks, I(6)).n

\* C5: for every horizon h >= 0 forecastDisruption returns h + 1 entries whose
\* week fields are 0, 1, ..., h in that order; horizon 0 gives one entry.
C5_ForecastWeeks ==
    (IsCall("forecastDisruption") /\ HorizonOfCall >= 0) =>
        /\ Len(ret.forecast) = HorizonOfCall + 1
        /\ \A i \in DOMAIN ret.forecast : ret.forecast[i].week = i - 1

\* a forecast over horizon 0: the single week-0 entry
C5_Witness ==
    /\ IsCall("forecastDisruption")
    /\ HorizonOfCall = 0
    /\ Len(ret.forecast) = 1
    /\ ret.forecast[1].week = 0

\* C6: every entry of a forecast over a horizon h >= 0 carries a probability
\* in [0,1], the last entry, computed with a remaining horizon of 0, included.
C6_ForecastProbabilityInUnit ==
    (IsCall("forecastDisruption") /\ HorizonOfCall >= 0) =>
        \A i \in DOMAIN ret.forecast : InUnit(ret.forecast[i].probability)

C9_DisruptionMonotone ==
    IsCall("calculateDisruptionProbability") =>
        \A sev2 \in Severities, conf2 \in Confidences :
            (/\ Le(Default(call.riskData.severity, I(3)), sev2)
             /\ Le(call.riskData.confidence, conf2))
            => Le(ret,
                  calculateDisruptionProbability(
                      [call.riskData EXCEPT !.severity = sev2,
                                            !.confidence = conf2],
                      call.timeHorizonWeeks, now))

\* the event of the call with no indicator but a participant count
OnlyParticipants(participants) ==
    [event_type |-> call.eventData.event_type,
     indicators |-> [present |-> TRUE, scope |-> Missing,
                     participants |-> participants,
                     historical_impact |-> Missing]]

\* C10: for every known event type the severity with more than 1000
\* participants is strictly above the severity with at most 500 participants
\* and no other indicator, and is at least 4 for a strike.
C10_SeverityIncreasesWithParticipants ==
    (/\ IsCall("calculateEventSeverity")
     /\ call.eventData.event_type \in EventTypes
     /\ call.eventData.indicators.present
     /\ call.eventData.indicators.participants.k = "fin"
     /\ Gt(call.eventData.indicators.participants, I(1000)))
    => /\ \A low \in {I(10), I(500)} :
             ret > calculateEventSeverity(OnlyParticipants(low))
       /\ call.eventData.event_type = "strike" => ret >= 4

\* a strike with 2000 participants and no other indicator has severity 5
C10_Witness ==
    /\ IsCall("calculateEventSeverity")
    /\ call.eventData = OnlyParticipants(I(2000))
    /\ call.eventData.event_type = "strike"
    /\ ret = 5
    /\ calculateEventSeverity(OnlyParticipants(I(10))) = 3

\* the duration the event type of the call stands for when the event carries
\* none of its own
DefaultDurationDays ==
    LET event_type == call.eventData.event_type
    IN  IF event_type = "strike" THEN 21
        ELSE IF event_type = "bankruptcy" THEN 180
        ELSE IF event_type = "environmental_shutdown" THEN 60
        ELSE IF event_type = "regulatory_action" THEN 45
        ELSE IF event_type = "infrastructure_outage" THEN 7
        ELSE IF event_type = "labor_protest" THEN 3
        ELSE 14

ActivateAlternatives ==
    {i \in DOMAIN ret.recommendations :
        ret.recommendations[i].action = "Activate alternative suppliers"}

\* the number of connections of the call for which an alternative is available
AlternativesOfCall ==
    Cardinality({i \in DOMAIN call.path.conns :
                    call.path.conns[i].alternative_available})

\* C12: the recommendations of an OEM exposure contain an "Activate
\* alternative suppliers" recommendation exactly when fewer than 2 of the
\* connections have an alternative; it has priority HIGH and the earliest
\* impact estimate in weeks as its timeline; an OEM with no alternative and
\* one affected Tier-1 supplier receives it.
C12_ActivateAlternativeSuppliers ==
    (IsCall("calculateOEMExposure") /\ ~ret.null) =>
        /\ (ActivateAlternatives # {}) <=> (AlternativesOfCall < 2)
        /\ \A i \in ActivateAlternatives :
              /\ ret.recommendations[i].priority = "HIGH"
              /\ ret.recommendations[i].timeline = "weeks"
              /\ ret.recommendations[i].weeks_from
                    = estimateImpactTimeline("mine", I(4)).earliest_impact_weeks
        /\ (AlternativesOfCall = 0 /\ ret.affected_tier1_suppliers = 1)
              => ActivateAlternatives # {}

\* a single Tier-1 supplier without an alternative: the recommendation is
\* made, for the 4 weeks of a mine
C12_Witness ==
    /\ IsCall("calculateOEMExposure")
    /\ ~ret.null
    /\ AlternativesOfCall = 0
    /\ ret.affected_tier1_suppliers = 1
    /\ \E i \in ActivateAlternatives :
          /\ ret.recommendations[i].priority = "HIGH"
          /\ ret.recommendations[i].weeks_from = I(4)

\* what the calculateRiskScore call in progress would have returned had it
\* been made at instant t
ScoreAt(t) ==
    calculateRiskScore(call.eventData, call.facilityData, call.regionData,
                       call.commodityData, t)

\* whole days from the detected date of the event of the call to instant t
WholeDaysAt(t) == (t - call.eventData.detected_date.n) \div TicksPerDay

C14_CommodityExposureInUnit ==
    IsCall("calculateCommodityExposure") =>
        \A commodity \in DOMAIN ret : InUnit(ret[commodity].exposure_score)

\* C15: calculateRiskScore never raises: it returns 0.3 when the computation
\* fails, as it does for an absent event record, and whatever it returns, for
\* any input, is a number in [0,1].
C15_RiskScoreSentinel ==
    IsCall("calculateRiskScore") =>
        /\ ~call.eventData.present => ret = R(3, 10)
        /\ InUnit(ret)

\* the OEMs in the list a getAffectedOEMs call returned
ReturnedOems == {ret[j].oem_id : j \in DOMAIN ret}

\* C16: calculateOEMExposure returns null when the exposure of the OEM cannot
\* be computed (its supply-chain path, the risk or the OEM record is absent);
\* getAffectedOEMs leaves such an OEM out and still returns every other OEM
\* whose exposure score is above 0.10, and returns the empty list when the
\* supply-chain data or the risk is absent.
C16_FailuresContained ==
    /\ (/\ IsCall("calculateOEMExposure")
        /\ (~call.oemData.present \/ ~call.riskData.present
                \/ ~call.path.present))
       => ret = NullExposure
    /\ IsCall("getAffectedOEMs") =>
          IF ~call.supplyChainData.present \/ ~call.riskData.present
          THEN ret = <<>>
          ELSE \A i \in DOMAIN call.supplyChainData.oem_connections :
                  LET path ==
                          call.supplyChainData.oem_connections[i].supply_chain_path
                  IN  IF ~path.present THEN i \notin ReturnedOems
                      ELSE Gt(ExposureOfOem(i).exposure_score, R(10, 100))
                              => i \in ReturnedOems

\* the path of the first OEM is absent, the second OEM is materially exposed:
\* the second OEM alone is returned
C16_Witness ==
    /\ IsCall("getAffectedOEMs")
    /\ call.supplyChainData.present
    /\ call.riskData.present
    /\ Len(call.supplyChainData.oem_connections) = 2
    /\ ~call.supplyChainData.oem_connections[1].supply_chain_path.present
    /\ call.supplyChainData.oem_connections[2].supply_chain_path.present
    /\ Len(ret) = 1
    /\ ret[1].oem_id = 2
    /\ Gt(ret[1].exposure_score, R(10, 100))

\* the lowest and the highest severity of the event type of the call, 1 and 3
\* for a type that is not known
RangeMinOfCall ==
    LET event_type == call.eventData.event_type
    IN  IF event_type = "bankruptcy" THEN 4
        ELSE IF event_type = "strike" THEN 3
        ELSE IF event_type \in {"environmental_shutdown", "regulatory_action"}
        THEN 2
        ELSE 1

RangeMaxOfCall ==
    LET event_type == call.eventData.event_type
    IN  IF event_type \in {"strike", "bankruptcy"} THEN 5
        ELSE IF event_type \in {"environmental_shutdown", "regulatory_action"}
        THEN 4
        ELSE 3

\* the indicators of the call signal the major level, the moderate level
MajorIndicated ==
    LET indicators == call.eventData.indicators
    IN  /\ indicators.present
        /\ \/ indicators.scope = "major"
           \/ (indicators.participants.k = "fin"
                  /\ Gt(indicators.participants, I(1000)))
           \/ indicators.historical_impact = "high"

ModerateIndicated ==
    LET indicators == call.eventData.indicators
    IN  /\ indicators.present
        /\ \/ indicators.scope = "moderate"
           \/ (indicators.participants.k = "fin"
                  /\ Gt(indicators.participants, I(500)))
           \/ indicators.historical_impact = "medium"

EasierThanCall ==
    IF call.substitution_difficulty = "high" THEN {"medium", "low"}
    ELSE IF call.substitution_difficulty = "medium" THEN {"low"}
    ELSE {}

\* the factor of a harder commodity is never below that of an easier one
HarderNeverSmaller ==
    \A easier \in EasierThanCall : Ge(ret, calculateCommodityRisk(easier))

ClaimedLeadTime(region) ==
    IF region \in {"peru", "Peru", "china"} THEN 4
    ELSE IF region = "mexico" THEN 2
    ELSE IF region = "vietnam" THEN 3
    ELSE IF region = "india" THEN 5
    ELSE 6

\* the sum of the lead times the claim gives the regions of a list
RECURSIVE ClaimedLeadTimeSum(_)
ClaimedLeadTimeSum(regions) ==
    IF regions = <<>> THEN 0
    ELSE ClaimedLeadTime(Head(regions)) + ClaimedLeadTimeSum(Tail(regions))

\* C19: the lead time calculateCommodityExposure reports for a commodity is
\* the average, rounded up, of the lead times of its source regions: peru 4,
\* mexico 2, vietnam 3, china 4, india 5 and 6 for every other region.
C19_LeadTimeAverage ==
    IsCall("calculateCommodityExposure") =>
        \A commodity \in DOMAIN ret :
            LET regions == ret[commodity].primary_source_regions
                weeks == ret[commodity].lead_time_weeks
            IN  regions # <<>> =>
                  /\ weeks * Len(regions) >= ClaimedLeadTimeSum(regions)
                  /\ (weeks - 1) * Len(regions) < ClaimedLeadTimeSum(regions)

\* C20: an exposure computation whose input lacks the dependency percentage
\* proceeds with 5: calculateExposureScore scores as for a dependency of 5,
\* calculateOEMExposure counts a connection without one as 5, and
\* calculateCommodityExposure reports 5 for a commodity entry without one.
C20_DefaultDependency ==
    /\ (/\ IsCall("calculateExposureScore")
        /\ call.supplyChainData.dependency_percentage = Undef)
       => ret = calculateExposureScore(
                    call.riskData,
                    [call.supplyChainData EXCEPT !.dependency_percentage = I(5)])
    /\ (IsCall("calculateOEMExposure") /\ ~ret.null)
       => ret = calculateOEMExposure(
                    call.oemData, call.riskData,
                    [call.path EXCEPT
                        !.conns = [i \in DOMAIN call.path.conns |->
                                      [call.path.conns[i] EXCEPT
                                          !.dependency_pct = Default(@, I(5))]]],
                    now)
    /\ IsCall("calculateCommodityExposure")
       => \A commodity \in DOMAIN ret :
             call.commoditySupplyData.entries[commodity].dependency_pct = Undef
                => ret[commodity].dependency_percentage = I(5)

\* the timeline factor of the calculateDisruptionProbability call in progress,
\* and the whole days from the call to the start date of its risk
TimelineFactorOfCall ==
    TimelineFactor(call.riskData.start_date,
                   Default(call.timeHorizonWeeks, I(6)), now)

DaysUntilStartOfCall == DaysBetween(now, call.riskData.start_date.n)

\* C21: the timeline factor of calculateDisruptionProbability over a horizon
\* of h >= 1 weeks is 0.5 for a risk without start date, 0.2 for a start date
\* at or beyond the horizon, and at most 1.0 for every other start date, dates
\* in the past included; the probability returned is then at most
\* (severity / 5) * confidence * phase factor.
C21_TimelineFactorAtMostOne ==
    (/\ IsCall("calculateDisruptionProbability")
     /\ Ge(Default(call.timeHorizonWeeks, I(6)), I(1)))
    => /\ call.riskData.start_date = Undef => TimelineFactorOfCall = R(5, 10)
       /\ (/\ call.riskData.start_date # Undef
           /\ DaysUntilStartOfCall
                 >= 7 * Default(call.timeHorizonWeeks, I(6)).n)
          => TimelineFactorOfCall = R(2, 10)
       /\ Le(TimelineFactorOfCall, I(1))
       /\ Le(ret,
             Mul(Mul(Div(Default(call.riskData.severity, I(3)), I(5)),
                     call.riskData.confidence),
                 IF call.riskData.status = "escalating" THEN R(12, 10) ELSE I(1)))

\* C22: the peak_risk_week of a forecast over a horizon h >= 0 is an entry of
\* the forecast whose probability is the maximum over all entries, and among
\* the entries with that probability the one of the smallest week.
C22_PeakIsEarliestMaximum ==
    (IsCall("forecastDisruption") /\ HorizonOfCall >= 0) =>
        \E i \in DOMAIN ret.forecast :
            /\ ret.peak_risk_week = ret.forecast[i]
            /\ \A j \in DOMAIN ret.forecast :
                  /\ Le(ret.forecast[j].probability,
                        ret.forecast[i].probability)
                  /\ j < i => ret.forecast[j].probability
                                 # ret.forecast[i].probability


\* the grade the boundaries 0.3 and 0.6 give a value: HIGH above 0.6, MEDIUM
\* above 0.3 and up to 0.6, LOW otherwise
GradeOf(value) ==
    IF Gt(value, R(6, 10)) THEN "HIGH"
    ELSE IF Gt(value, R(3, 10)) /\ Le(value, R(6, 10)) THEN "MEDIUM"
    ELSE "LOW"

\* the expected disruption of entry i of the forecast in progress, before it
\* is written with three decimals
ExpectedDisruptionOfCall(i) ==
    Mul(Mul(calculateDisruptionProbability(
                call.riskData, I(HorizonOfCall - (i - 1)), now),
            call.supplyChainExposure),
        PowWeeks(i - 1))

\* C23: the risk level of an OEM exposure, of every forecast entry and of the
\* exposure route's summary is HIGH exactly when the graded value is above
\* 0.6, MEDIUM exactly when it is above 0.3 and at most 0.6, and LOW
\* otherwise: exactly 0.6 is MEDIUM and exactly 0.3 is LOW.
C23_RiskLevelBoundaries ==
    /\ (IsCall("calculateOEMExposure") /\ ~ret.null) =>
           ret.risk_level = GradeOf(ret.exposure_score)
    /\ IsCall("forecastDisruption") =>
           \A i \in DOMAIN ret.forecast :
               ret.forecast[i].risk_level = GradeOf(ExpectedDisruptionOfCall(i))
    /\ (IsCall("oemExposureRoute") /\ ret.status = 200) =>
           ret.overall_risk_level
               = GradeOf(MaxDisruption(I(0), call.exposure.active_risks))

\* an OEM exposure whose score is exactly 0.6, reported as MEDIUM
C23_Witness ==
    /\ IsCall("calculateOEMExposure")
    /\ ~ret.null
    /\ ret.exposure_score = R(6, 10)
    /\ ret.risk_level = "MEDIUM"


\* the smallest whole number that is not below x
WholeWeeksCovering(x) ==
    CHOOSE n \in 0..100 : Le(x, I(n)) /\ Lt(I(n - 1), x)

\* C24: the recommendations of an OEM exposure start with the inventory
\* buffer and end with the strengthening of supplier relationships; the
\* buffer runs from ceil(dependency / 20) weeks to two weeks more, and it is
\* URGENT exactly when the severity is 4 or more, HIGH otherwise.
C24_BufferFirstPartnershipsLast ==
    (IsCall("calculateOEMExposure") /\ ~ret.null) =>
        LET recs == ret.recommendations
            bufferWeeks ==
                WholeWeeksCovering(Div(ret.dependency_percentage, I(20)))
        IN  /\ Len(recs) >= 2
            /\ recs[1].action = "Increase inventory buffer"
            /\ recs[Len(recs)].action = "Strengthen supplier relationships"
            /\ recs[1].weeks_from = I(bufferWeeks)
            /\ recs[1].weeks_to = I(bufferWeeks + 2)
            /\ recs[1].priority = "URGENT"
                  <=> Ge(call.riskData.severity, I(4))
            /\ recs[1].priority = "HIGH"
                  <=> Lt(call.riskData.severity, I(4))

\* a risk of severity 4 on a mean dependency of 25 percent: an URGENT buffer
\* of 2 to 4 weeks, with other recommendations between it and the last one
C24_Witness ==
    /\ IsCall("calculateOEMExposure")
    /\ ~ret.null
    /\ call.riskData.severity = I(4)
    /\ ret.dependency_percentage = I(25)
    /\ Len(ret.recommendations) > 2
    /\ ret.recommendations[1].priority = "URGENT"
    /\ ret.recommendations[1].weeks_from = I(2)
    /\ ret.recommendations[1].weeks_to = I(4)


\* the connections of the calculateOEMExposure call in progress, those of
\* them on tier 1, and the sum of the first n dependency percentages
ConnectionsOfCall == call.path.conns

Tier1OfCall ==
    {i \in DOMAIN ConnectionsOfCall :
        ConnectionsOfCall[i].supplier_tier = I(1)}

RECURSIVE PercentagesUpTo(_)
PercentagesUpTo(n) ==
    IF n = 0 THEN I(0)
    ELSE Add(ConnectionsOfCall[n].dependency_pct, PercentagesUpTo(n - 1))

AllPercentagesGiven ==
    \A i \in DOMAIN ConnectionsOfCall :
        ConnectionsOfCall[i].dependency_pct # Undef

\* the exposure score of the result before the single-source multiplier
ScoreBeforeMultiplier ==
    Mul(Mul(Div(ret.dependency_percentage, I(100)),
            Div(call.riskData.severity, I(5))),
        IF Gt(ret.alternative_sources, I(0))
        THEN MathMax(R(1, 10),
                     Sub(I(1), Mul(ret.alternative_sources, R(2, 10))))
        ELSE I(1))

\* C25: calculateOEMExposure reports as affected_tier1_suppliers the number
\* of connections on tier 1 and, for connections that all carry a dependency
\* percentage, as dependency percentage their arithmetic mean; the exposure
\* score carries the factor 1.5 if and only if exactly one connection is on
\* tier 1.
C25_TierCountMeanAndMultiplier ==
    (IsCall("calculateOEMExposure") /\ ~ret.null) =>
        /\ ret.affected_tier1_suppliers = Cardinality(Tier1OfCall)
        /\ (ConnectionsOfCall # <<>> /\ AllPercentagesGiven) =>
               Mul(ret.dependency_percentage, I(Len(ConnectionsOfCall)))
                   = PercentagesUpTo(Len(ConnectionsOfCall))
        /\ Cardinality(Tier1OfCall) = 1 =>
               ret.exposure_score
                   = MathMin(I(1), Mul(ScoreBeforeMultiplier, R(15, 10)))
        /\ Cardinality(Tier1OfCall) # 1 =>
               ret.exposure_score = MathMin(I(1), ScoreBeforeMultiplier)

\* two connections of 40 and 10 percent, one of them on tier 1: a mean of 25,
\* not the sum 50, and a score of 0.25 * 0.6 * 0.8 * 1.5 at severity 3
C25_Witness ==
    /\ IsCall("calculateOEMExposure")
    /\ ~ret.null
    /\ Len(ConnectionsOfCall) = 2
    /\ AllPercentagesGiven
    /\ call.riskData.severity = I(3)
    /\ ret.affected_tier1_suppliers = 1
    /\ ret.dependency_percentage = I(25)
    /\ ret.exposure_score = R(18, 100)


\* the inputs of the calculateExposureScore call in progress with their
\* defaults, and its score with one alternative source more
DependencyOfCall == Default(call.supplyChainData.dependency_percentage, I(10))

SeverityOfCall == Default(call.riskData.severity, I(3))

AlternativeCountOfCall == Default(call.supplyChainData.alternative_sources, I(0))

ScoreWithOneMoreAlternative ==
    calculateExposureScore(
        call.riskData,
        [call.supplyChainData EXCEPT
            !.alternative_sources = Add(AlternativeCountOfCall, I(1))])

\* C26: for a positive dependency and a severity of 1 or more
\* calculateExposureScore is above 0 for every number of alternative sources;
\* the alternatives multiply the score by max(0.1, 1 - 0.2 * count), and one
\* alternative more never gives a higher score.
C26_AlternativesReduceNotToZero ==
    (/\ IsCall("calculateExposureScore")
     /\ Gt(DependencyOfCall, I(0))
     /\ Ge(SeverityOfCall, I(1)))
    => /\ Gt(ret, I(0))
       /\ ret = MathMin(
                    I(1),
                    Mul(Mul(Mul(Div(DependencyOfCall, I(100)),
                                Div(SeverityOfCall, I(5))),
                            MathMax(R(1, 10),
                                    Sub(I(1), Mul(AlternativeCountOfCall,
                                                  R(2, 10))))),
                        IF Default(call.supplyChainData.affected_tier1_suppliers,
                                   I(1)) = I(1)
                        THEN R(15, 10) ELSE I(1)))
       /\ Le(ScoreWithOneMoreAlternative, ret)

\* six alternative sources on a dependency of 50 percent at severity 5 with
\* one Tier-1 supplier: the multiplier stops at 0.1 and the score is 0.075
C26_Witness ==
    /\ IsCall("calculateExposureScore")
    /\ call.supplyChainData.dependency_percentage = I(50)
    /\ call.riskData.severity = I(5)
    /\ call.supplyChainData.affected_tier1_suppliers = I(1)
    /\ call.supplyChainData.alternative_sources = I(6)
    /\ ret = R(75, 1000)
    /\ ScoreWithOneMoreAlternative = ret


\* C27: forecastDisruption over a negative horizon returns the result of its
\* catch block, with the horizon, an empty forecast and no peak week; over
\* horizon 0 it returns a forecast of the one entry of week 0, and the peak
\* week is that entry.
C27_UnforecastableHorizon ==
    /\ (IsCall("forecastDisruption") /\ HorizonOfCall < 0) =>
           ret = [time_horizon_weeks |-> HorizonOfCall,
                  forecast |-> <<>>,
                  peak_risk_week |-> [null |-> TRUE]]
    /\ (IsCall("forecastDisruption") /\ HorizonOfCall = 0) =>
           /\ ret.time_horizon_weeks = 0
           /\ Len(ret.forecast) = 1
           /\ ~ret.forecast[1].null
           /\ ret.forecast[1].week = 0
           /\ ret.peak_risk_week = ret.forecast[1]

\* a forecast over the horizon -1: no entries and no peak week
C27_Witness ==
    /\ IsCall("forecastDisruption")
    /\ HorizonOfCall = -1
    /\ ret.forecast = <<>>
    /\ ret.peak_risk_week.null


\* the time-decay factor of the calculateRiskScore call in progress
TimeDecayOfCall ==
    calculateTimeDecay(
        DaysBetween(Default(call.eventData.detected_date, I(now)).n, now))

\* C28: the time-decay factor calculateRiskScore multiplies into the score of
\* an event with a detected date is above 0 and at most 1, and it is 1 for an
\* event detected at the instant of scoring; no detected date, one after the
\* instant of scoring included, gives a score above that of the same event
\* detected at the instant of scoring.
C28_TimeDecayInUnitInterval ==
    (/\ IsCall("calculateRiskScore")
     /\ call.eventData.present
     /\ IsFin(Default(call.eventData.detected_date, I(now))))
    => /\ Gt(TimeDecayOfCall, I(0))
       /\ Le(TimeDecayOfCall, I(1))
       /\ Default(call.eventData.detected_date, I(now)) = I(now)
             => TimeDecayOfCall = I(1)
       /\ ScoredEventInRange
             => Le(ret, ScoreOf([call.eventData EXCEPT
                                    !.detected_date = I(now)]))


\* the fetch call of caller c does what C29 says of a call
FetchAsClaimed(c) ==
    LET f == fetches[c]
    IN  /\ f.attempts <= retryAttempts
        /\ f.failures <= f.attempts
        /\ (f.pc = "returned" /\ ~f.fresh) =>
               /\ f.attempts = f.failures + 1
               /\ f.result = f.response
               /\ f.response \in Texts
        /\ Len(f.delays) = (IF f.pc = "thrown" THEN f.failures - 1
                            ELSE f.failures)
        /\ \A i \in DOMAIN f.delays : f.delays[i] = retryDelay * 2 ^ (i - 1)
        /\ f.pc = "thrown" =>
               /\ f.failures = retryAttempts
               /\ f.attempts = retryAttempts
               /\ f.result = f.errors[Len(f.errors)]
        /\ (f.pc # "idle" /\ f.fresh) =>
               /\ f.pc = "returned"
               /\ f.attempts = 0
               /\ f.result = f.seen

\* C29: a fetch call makes at most retryAttempts network attempts, returns
\* the text of the first successful one, sleeps retryDelay * 2^(i-1) after
\* the i-th failure if another attempt follows and not otherwise, and throws
\* the error of the last attempt after exactly retryAttempts failures; the
\* cache holds texts of successful responses only, and a call that finds an
\* entry younger than cacheTTL returns its text without a network attempt.
C29_FetchRetriesAndCache ==
    /\ \A c \in Callers : FetchAsClaimed(c)
    /\ \A url \in Urls :
           cache[url].present =>
               cache[url].data \in Texts /\ cache[url].timestamp <= now

\* one caller has failed retryAttempts times, with the delays 1000 and 2000
\* between its attempts, while the other has been served from the cache
C29_Witness ==
    /\ fetches["first"].pc = "thrown"
    /\ fetches["first"].attempts = retryAttempts
    /\ fetches["first"].delays = <<1000, 2000>>
    /\ fetches["first"].result = "HTTP 500"
    /\ fetches["first"].errors[1] = "AbortError"
    /\ fetches["second"].pc = "returned"
    /\ fetches["second"].fresh
    /\ fetches["second"].attempts = 0
    /\ fetches["second"].result \in Texts

=============================================================================
